---------------------------- MODULE Spec2Model ----------------------------
(***************************************************************************)
(* A model of squish (BC1..BC5 block compression): the format adapters,   *)
(* the size law, the block decoders, the fitter dispatch of the colour     *)
(* block encoder and the tiling driver                                     *)
(* (Encoder::compress, Decoder::decompress) with its optional per-row      *)
(* parallel fan-out.                                                       *)
(*                                                                         *)
(* Buffers are sequences; a buffer index k of the source is position k+1   *)
(* here (see At).  usize arithmetic is modelled on unbounded integers: the *)
(* bounds keep every product far below 2^64.                               *)
(***************************************************************************)
EXTENDS Integers, Sequences, FiniteSets, TLC

VARIABLES
    op,        \* the API entry that is called
    format,    \* Self: "BC1" .. "BC5"
    width,     \* argument width
    height,    \* argument height
    seed,      \* selects the contents of the input buffers
    params,    \* argument params: [algorithm, weigh_colour_by_alpha]
    rayon,     \* whether the crate is built with feature "rayon"
    status,    \* "ready" | "running" | "returned" | "panicked"
    rgba,      \* compress: the uncompressed input image (bytes)
    data,      \* decompress / decompress_block: the compressed input (bytes)
    output,    \* the caller's output buffer
    writers,   \* history: per output byte, the rows-of-blocks that wrote it
    rows,      \* per chunk of output_rows: [pc, x, source_rgba]
    calls,     \* history: the compress_block_masked invocations
    times,     \* history: per tile <<y, x>>, how often the encoder was invoked
    result     \* return value of compressed_size / decompress_block; for
               \* compress_block_masked, history: the colour fitters that ran

vars == <<op, format, width, height, seed, params, rayon, status, rgba, data,
          output, writers, rows, calls, times, result>>

(***************************************************************************)
(* Bounds of the model.                                                    *)
(***************************************************************************)
MaxSizeWidth == 16
MaxSizeHeight == 32
MaxSeed == 2
MaxImageSeed == 1
MaxWidth == 5
MaxHeight == 9

(***************************************************************************)
(* Helpers: 0-based indexing and bit operations on naturals.               *)
(***************************************************************************)
At(buf, k) == buf[k + 1]

Shr(v, n) == v \div (2 ^ n)

LowBits(v, n) == v % (2 ^ n)

Min(a, b) == IF a < b THEN a ELSE b

mask_bits_all(enabled, index) == 65535

\* the mask with bit `index` set for every enabled[index], index in 0..15
RECURSIVE mask_bits(_, _)
mask_bits(enabled, index) ==
    IF index = 16 THEN 0
    ELSE (IF enabled[index] THEN 2 ^ index ELSE 0) + mask_bits(enabled, index + 1)

Formats == {"BC1", "BC2", "BC3", "BC4", "BC5"}

(***************************************************************************)
(* Format::block_size                                                      *)
(***************************************************************************)
block_size(F) ==
    CASE F = "BC1" -> 8
      [] F = "BC2" -> 16
      [] F = "BC3" -> 16
      [] F = "BC4" -> 8
      [] F = "BC5" -> 16

(***************************************************************************)
(* num_blocks and Encoder::compressed_size                                 *)
(***************************************************************************)
num_blocks_floor(size) == size \div 4

num_blocks(size) == (size + 3) \div 4

compressed_size(F, w, h) ==
    LET blocks == num_blocks(w) * num_blocks(h)
    IN  blocks * block_size(F)

(***************************************************************************)
(* colourblock::decompress (§4.5 Unpack): 565 endpoints expanded by bit    *)
(* replication, the palette chosen by the endpoint ordering, 2-bit indices *)
(* from the little-endian word in bytes 4..7.                              *)
(***************************************************************************)
unpack_565(lo, hi) ==
    LET value == lo + 256 * hi
        red   == LowBits(Shr(value, 11), 5)
        green == LowBits(Shr(value, 5), 6)
        blue  == LowBits(value, 5)
    IN  [value  |-> value,
         colour |-> << red * 8 + Shr(red, 2),
                       green * 4 + Shr(green, 4),
                       blue * 8 + Shr(blue, 2),
                       255 >>]

colourblock_codes(bytes, is_bc1) ==
    LET a == unpack_565(At(bytes, 0), At(bytes, 1))
        b == unpack_565(At(bytes, 2), At(bytes, 3))
        three == is_bc1 /\ a.value <= b.value
        c(i) == a.colour[i]
        d(i) == b.colour[i]
    IN  << a.colour,
           b.colour,
           [i \in 1..4 |->
               IF i = 4 THEN 255
               ELSE IF three THEN (c(i) + d(i)) \div 2
               ELSE (2 * c(i) + d(i)) \div 3],
           [i \in 1..4 |->
               IF i = 4 THEN (IF three THEN 0 ELSE 255)
               ELSE IF three THEN 0
               ELSE (c(i) + 2 * d(i)) \div 3] >>

colourblock_index(bytes, i) ==
    LowBits(Shr(At(bytes, 4 + (i \div 4)), 2 * (i % 4)), 2)

colourblock_decompress(bytes, is_bc1) ==
    LET codes == colourblock_codes(bytes, is_bc1)
    IN  [n \in 1..16 |-> At(codes, colourblock_index(bytes, n - 1))]

(***************************************************************************)
(* alpha::decompress_bc2 and alpha::decompress_bc3 (§4.6): each writes one *)
(* channel of the 16 pixels and leaves the other channels as they are.     *)
(***************************************************************************)
alpha_decompress_bc2(pixels, bytes) ==
    [n \in 1..16 |->
        LET quant  == At(bytes, (n - 1) \div 2)
            nibble == IF (n - 1) % 2 = 0 THEN LowBits(quant, 4) ELSE Shr(quant, 4)
        IN  [pixels[n] EXCEPT ![4] = nibble + 16 * nibble]]

alpha_codes(alpha0, alpha1) ==
    IF alpha0 <= alpha1
    THEN << alpha0, alpha1,
            (4 * alpha0 + alpha1) \div 5,
            (3 * alpha0 + 2 * alpha1) \div 5,
            (2 * alpha0 + 3 * alpha1) \div 5,
            (alpha0 + 4 * alpha1) \div 5,
            0, 255 >>
    ELSE << alpha0, alpha1,
            (6 * alpha0 + alpha1) \div 7,
            (5 * alpha0 + 2 * alpha1) \div 7,
            (4 * alpha0 + 3 * alpha1) \div 7,
            (3 * alpha0 + 4 * alpha1) \div 7,
            (2 * alpha0 + 5 * alpha1) \div 7,
            (alpha0 + 6 * alpha1) \div 7 >>

alpha_index(bytes, i) ==
    LET g     == i \div 8
        value == At(bytes, 2 + 3 * g) + 256 * At(bytes, 3 + 3 * g)
                 + 65536 * At(bytes, 4 + 3 * g)
    IN  LowBits(Shr(value, 3 * (i % 8)), 3)

alpha_decompress_bc3(pixels, channel, bytes) ==
    LET codes == alpha_codes(At(bytes, 0), At(bytes, 1))
    IN  [n \in 1..16 |->
            [pixels[n] EXCEPT ![channel + 1] = At(codes, alpha_index(bytes, n - 1))]]

(***************************************************************************)
(* private::Decoder::decompress_block of the five formats.                 *)
(***************************************************************************)
ZeroPixels == [n \in 1..16 |-> <<0, 0, 0, 0>>]

BC1_decompress_block_four_colour(block) == colourblock_decompress(block, FALSE)

BC1_decompress_block(block) == colourblock_decompress(block, TRUE)

BC2_decompress_block(block) ==
    LET colour == colourblock_decompress(SubSeq(block, 9, 16), TRUE)
    IN  alpha_decompress_bc2(colour, SubSeq(block, 1, 8))

BC3_decompress_block(block) ==
    LET colour == colourblock_decompress(SubSeq(block, 9, 16), TRUE)
    IN  alpha_decompress_bc3(colour, 3, SubSeq(block, 1, 8))

\* `for ref mut pixel in rgba` iterates the array by value: the splat is made
\* on the iterator's own copy of each pixel, and `rgba` is returned as
\* alpha::decompress_bc3 left it.
BC4_decompress_block(block) ==
    LET pixels  == alpha_decompress_bc3(ZeroPixels, 0, SubSeq(block, 1, 8))
        splat   == [n \in 1..16 |->
                      [pixels[n] EXCEPT ![2] = pixels[n][1], ![3] = pixels[n][1]]]
    IN  pixels

BC5_decompress_block(block) ==
    LET red == alpha_decompress_bc3(ZeroPixels, 0, SubSeq(block, 1, 8))
    IN  alpha_decompress_bc3(red, 1, SubSeq(block, 9, 16))

decompress_block(F, block) ==
    CASE F = "BC1" -> BC1_decompress_block(block)
      [] F = "BC2" -> BC2_decompress_block(block)
      [] F = "BC3" -> BC3_decompress_block(block)
      [] F = "BC4" -> BC4_decompress_block(block)
      [] F = "BC5" -> BC5_decompress_block(block)

(***************************************************************************)
(* Params and Algorithm.  `weights` ([f32; 3]) is handed to the fitters    *)
(* untouched and plays no part in what is modelled here.                   *)
(***************************************************************************)
Algorithms == {"RangeFit", "ClusterFit", "IterativeClusterFit"}

DefaultParams == [algorithm |-> "ClusterFit", weigh_colour_by_alpha |-> FALSE]

(***************************************************************************)
(* ColourSet::new / ColourSet::count (§4.1): pixels 0..15 in order; a      *)
(* pixel is skipped when its mask bit is clear, or when is_bc1 and its     *)
(* alpha is below 128; a pixel whose RGB is already in the set is merged   *)
(* into that entry, any other is appended.  weigh_colour_by_alpha changes  *)
(* the weights (always positive), not the entries.                         *)
(***************************************************************************)
RECURSIVE ColourSet_points(_, _, _, _, _)
ColourSet_points(tile, mask, is_bc1, i, points) ==
    IF i = 16 THEN points
    ELSE LET pixel   == tile[i + 1]
             rgb     == SubSeq(pixel, 1, 3)
             skipped == \/ LowBits(Shr(mask, i), 1) = 0
                        \/ is_bc1 /\ pixel[4] < 128
             known   == \E j \in 1..Len(points) : points[j] = rgb
         IN  ColourSet_points(tile, mask, is_bc1, i + 1,
                              IF skipped \/ known THEN points
                              ELSE Append(points, rgb))

ColourSet_count(tile, mask, is_bc1, weigh_colour_by_alpha) ==
    Len(ColourSet_points(tile, mask, is_bc1, 0, <<>>))

(***************************************************************************)
(* private::Encoder::compress_block_masked of the five formats.  The bytes *)
(* a sub-encoder writes are kept as terms: byte k of the codec's encoding  *)
(* of (rgba, mask), and for a colour block the fitter that produced it.    *)
(* `len` is the length of the output slice handed in: a range index beyond *)
(* it panics, after whatever was written before.                           *)
(***************************************************************************)
NoFit == [fit |-> "none", iterate |-> FALSE]

InitCell(v) ==
    [codec |-> "none", is_bc1 |-> FALSE, channel |-> 0, rgba |-> <<>>,
     mask |-> 0, k |-> 0, fit |-> NoFit, init |-> v]

EncodedCell(codec, is_bc1, channel, tile, mask, fit, k) ==
    [codec |-> codec, is_bc1 |-> is_bc1, channel |-> channel, rgba |-> tile,
     mask |-> mask, k |-> k, fit |-> fit, init |-> 0]

\* the if / else if / else of compress_bc1_bc2_bc3_colour_block: the fitters
\* constructed and run, in order
colour_fit_by_algorithm(count, algorithm) ==
    IF algorithm = "RangeFit"
    THEN << [fit |-> "RangeFit", iterate |-> FALSE] >>
    ELSE << [fit |-> "ClusterFit", iterate |-> algorithm = "IterativeClusterFit"] >>

colour_fit(count, algorithm) ==
    IF count = 1
    THEN << [fit |-> "SingleColourFit", iterate |-> FALSE] >>
    ELSE IF algorithm = "RangeFit" \/ count = 0
    THEN << [fit |-> "RangeFit", iterate |-> FALSE] >>
    ELSE << [fit |-> "ClusterFit", iterate |-> algorithm = "IterativeClusterFit"] >>

\* colour_block = &mut output[colour_offset..colour_offset + 8]
colour_offset(is_bc1) == IF is_bc1 THEN 0 ELSE 8

\* compress_bc1_bc2_bc3_colour_block: every fitter run writes the 8 bytes of
\* colour_block; `fits` is what ran, `written` the bytes of colour_block after
compress_bc1_bc2_bc3_colour_block(tile, mask, pars, is_bc1) ==
    LET count == ColourSet_count(tile, mask, is_bc1, pars.weigh_colour_by_alpha)
        fits  == colour_fit(count, pars.algorithm)
    IN  [offset  |-> colour_offset(is_bc1),
         fits    |-> fits,
         written |-> [k \in 1..8 |->
                        EncodedCell("colour", is_bc1, 0, tile, mask,
                                    fits[Len(fits)], k - 1)]]

alpha_compress_bc2(tile, mask) ==
    [k \in 1..8 |-> EncodedCell("alpha_bc2", FALSE, 3, tile, mask, NoFit, k - 1)]

alpha_compress_bc3(tile, channel, mask) ==
    [k \in 1..8 |-> EncodedCell("alpha_bc3", FALSE, channel, tile, mask, NoFit, k - 1)]

Encoded(written, fits, panicked) ==
    [written |-> written, fits |-> fits, panicked |-> panicked]

\* the block with output[colour_offset..colour_offset + 8] written by the
\* colour fitter and the bytes before it by the alpha encoder
with_colour_block(alpha, colour) ==
    [k \in 1..(colour.offset + 8) |->
        IF k - 1 < colour.offset THEN alpha[k] ELSE colour.written[k - colour.offset]]

BC1_compress_block_masked(tile, mask, pars, len) ==
    IF len < 8 THEN Encoded(<<>>, <<>>, TRUE)
    ELSE LET colour == compress_bc1_bc2_bc3_colour_block(tile, mask, pars, TRUE)
         IN  Encoded(with_colour_block(<<>>, colour), colour.fits, FALSE)

BC2_compress_block_masked(tile, mask, pars, len) ==
    IF len < 16 THEN Encoded(<<>>, <<>>, TRUE)
    ELSE LET colour == compress_bc1_bc2_bc3_colour_block(tile, mask, pars, FALSE)
         IN  Encoded(with_colour_block(alpha_compress_bc2(tile, mask), colour),
                     colour.fits, FALSE)

BC3_compress_block_masked(tile, mask, pars, len) ==
    IF len < 16 THEN Encoded(<<>>, <<>>, TRUE)
    ELSE LET colour == compress_bc1_bc2_bc3_colour_block(tile, mask, pars, FALSE)
         IN  Encoded(with_colour_block(alpha_compress_bc3(tile, 3, mask), colour),
                     colour.fits, FALSE)

BC4_compress_block_masked(tile, mask, pars, len) ==
    IF len < 8 THEN Encoded(<<>>, <<>>, TRUE)
    ELSE Encoded(alpha_compress_bc3(tile, 0, mask), <<>>, FALSE)

BC5_compress_block_masked(tile, mask, pars, len) ==
    IF len < 8 THEN Encoded(<<>>, <<>>, TRUE)
    ELSE IF len < 16 THEN Encoded(alpha_compress_bc3(tile, 0, mask), <<>>, TRUE)
    ELSE Encoded(alpha_compress_bc3(tile, 0, mask)
                    \o alpha_compress_bc3(tile, 1, mask), <<>>, FALSE)

compress_block_masked(F, tile, mask, pars, len) ==
    CASE F = "BC1" -> BC1_compress_block_masked(tile, mask, pars, len)
      [] F = "BC2" -> BC2_compress_block_masked(tile, mask, pars, len)
      [] F = "BC3" -> BC3_compress_block_masked(tile, mask, pars, len)
      [] F = "BC4" -> BC4_compress_block_masked(tile, mask, pars, len)
      [] F = "BC5" -> BC5_compress_block_masked(tile, mask, pars, len)

(***************************************************************************)
(* slice::chunks_mut / par_chunks_mut: chunk y of a buffer of `len` bytes  *)
(* cut into chunks of `chunk_size`; the last chunk may be shorter.         *)
(***************************************************************************)
num_chunks(len, chunk_size) == (len + chunk_size - 1) \div chunk_size

chunks_mut_shared_start(len, chunk_size, y) ==
    [start |-> 0, end |-> Min(chunk_size, len)]

chunks_mut(len, chunk_size, y) ==
    [start |-> y * chunk_size, end |-> Min((y + 1) * chunk_size, len)]

(***************************************************************************)
(* Inputs.  Compressed blocks are built from 8-byte halves: the vectors of *)
(* the unit tests (bc1.rs, bc2.rs), one with equal endpoints, and a small  *)
(* generated family.                                                       *)
(***************************************************************************)
GrayBlock == <<0, 0, 255, 255, 17, 104, 41, 68>>

ColourBlock == <<169, 252, 69, 251, 0, 255, 85, 85>>

AlphaBlock == <<16, 50, 84, 118, 152, 186, 220, 254>>

EqualBlock == <<52, 18, 52, 18, 228, 27, 228, 27>>

PatternBlock(s) == [k \in 1..8 |-> (s * 53 + k * k * 37 + k * 11 + 200) % 256]

HalfBlocks ==
    {GrayBlock, ColourBlock, AlphaBlock, EqualBlock}
        \cup {PatternBlock(s) : s \in 0..MaxSeed}

BlockInputs == HalfBlocks \cup {h1 \o h2 : h1 \in HalfBlocks, h2 \in HalfBlocks}

(***************************************************************************)
(* Inputs of the image calls.                                              *)
(***************************************************************************)
InputImage(s, w, h) == [k \in 1..(w * h * 4) |-> (k * 29 + s * 7 + 3) % 256]

\* 4x4 images for compress_block_masked: every pixel one colour with alpha a
UniformImage(s, a) ==
    [k \in 1..64 |-> IF k % 4 = 0 THEN a ELSE (s * 40 + (k % 4) * 60) % 256]

\* two colours in columns, the second column of the first colour translucent
TwoColourImage(s) ==
    [k \in 1..64 |->
        IF k % 4 = 0 THEN (IF ((k - 1) \div 4) % 4 = 1 THEN 100 ELSE 255)
        ELSE IF ((k - 1) \div 4) % 4 < 2 THEN (s * 40 + (k % 4) * 60) % 256
        ELSE (s * 90 + (k % 4) * 20) % 256]

TileImages(s) ==
    {InputImage(s, 4, 4), UniformImage(s, 255), UniformImage(s, 0), TwoColourImage(s)}

CompressedData(s, n) == [k \in 1..n |-> (s * 53 + k * k * 37 + k * 11 + 200) % 256]

InitialBytes(s, n) == [k \in 1..n |-> (k * 3 + s) % 256]

InitialCells(s, n) == [k \in 1..n |-> InitCell((k * 3 + s) % 256)]

\* Output lengths tried for compress: one block short, one byte short, exact,
\* a fraction of a block longer, a whole block longer, a whole row of blocks
\* longer.
OutputLens(F, w, h) ==
    LET size == compressed_size(F, w, h)
    IN  {size, size + 3, size + block_size(F),
         size + num_blocks(w) * block_size(F)}
            \cup (IF size > 0 THEN {size - block_size(F), size - 1} ELSE {})

(***************************************************************************)
(* Encoder::compressed_size as an API call.                                *)
(***************************************************************************)
InitSize ==
    /\ op = "compressed_size"
    /\ format \in Formats
    /\ width \in 0..MaxSizeWidth
    /\ height \in 0..MaxSizeHeight
    /\ seed = 0
    /\ params = DefaultParams
    /\ rayon = FALSE
    /\ status = "ready"
    /\ rgba = <<>>
    /\ data = <<>>
    /\ output = <<>>
    /\ writers = <<>>
    /\ rows = <<>>
    /\ calls = <<>>
    /\ times = <<>>
    /\ result = <<>>

CompressedSizeCall ==
    /\ op = "compressed_size"
    /\ status = "ready"
    /\ result' = compressed_size(format, width, height)
    /\ status' = "returned"
    /\ UNCHANGED <<op, format, width, height, seed, params, rayon, rgba, data,
                   output, writers, rows, calls, times>>

NextSize == CompressedSizeCall

SpecSize == InitSize /\ [][NextSize]_vars

(***************************************************************************)
(* private::Decoder::decompress_block as a call on one block.  The         *)
(* assert_eq!(block.len(), Self::block_size()) of every format fails on a  *)
(* slice of the wrong length.                                              *)
(***************************************************************************)
InitBlock ==
    /\ op \in {"decompress_block", "compress_block_masked"}
    /\ format \in Formats
    /\ seed \in 1..MaxSeed
    /\ rayon = FALSE
    /\ status = "ready"
    /\ IF op = "decompress_block"
       THEN /\ width = 4
            /\ height = 4
            /\ seed = 1
            /\ params = DefaultParams
            /\ rgba = <<>>
            /\ data \in BlockInputs
            /\ output = <<>>
       ELSE /\ width \in 0..4
            /\ height \in 0..4
            /\ params \in [algorithm : Algorithms, weigh_colour_by_alpha : BOOLEAN]
            /\ rgba \in TileImages(seed)
            /\ data = <<>>
            /\ \E len \in {8, 16} : output = InitialCells(seed, len)
    /\ writers = <<>>
    /\ rows = <<>>
    /\ calls = {}
    /\ times = <<>>
    /\ result = <<>>

DecompressBlockCall ==
    /\ op = "decompress_block"
    /\ status = "ready"
    /\ IF Len(data) = block_size(format)
       THEN /\ result' = decompress_block(format, data)
            /\ status' = "returned"
       ELSE /\ result' = result
            /\ status' = "panicked"
    /\ UNCHANGED <<op, format, width, height, seed, params, rayon, rgba, data,
                   output, writers, rows, calls, times>>

\* The tile and mask of the call: the 4x4 image in rgba, with the pixels
\* px < width, py < height enabled.
BlockTile == [n \in 1..16 |-> SubSeq(rgba, 4 * n - 3, 4 * n)]

BlockMask ==
    mask_bits([index \in 0..15 |-> (index % 4) < width /\ (index \div 4) < height], 0)

CompressBlockCall ==
    /\ op = "compress_block_masked"
    /\ status = "ready"
    /\ \E enc \in {compress_block_masked(format, BlockTile, BlockMask, params,
                                          Len(output))} :
        /\ output' = [k \in 1..Len(output) |->
                        IF k <= Len(enc.written) THEN enc.written[k] ELSE output[k]]
        /\ result' = enc.fits
        /\ status' = IF enc.panicked THEN "panicked" ELSE "returned"
    /\ UNCHANGED <<op, format, width, height, seed, params, rayon, rgba, data,
                   writers, rows, calls, times>>

NextBlock ==
    \/ DecompressBlockCall
    \/ CompressBlockCall

SpecBlock == InitBlock /\ [][NextBlock]_vars

NewRows(n) == [y \in 1..n |-> [pc |-> "run", x |-> 0, source_rgba |-> ZeroPixels]]

Terminated(r) == r.pc \in {"done", "panicked"}

(***************************************************************************)
(* Encoder::compress, one block: the body of the inner for_each for block  *)
(* x of the chunk y of output_rows.  `src` is source_rgba, which is        *)
(* declared once per row and carried from block to block.                  *)
(***************************************************************************)
compress_chunk_size == num_blocks(width) * block_size(format)

compress_row_shared_start(out, y) ==
    chunks_mut_shared_start(Len(out), compress_chunk_size, y)

compress_row(out, y) == chunks_mut(Len(out), compress_chunk_size, y)

compress_row_blocks(out, y) ==
    LET row == compress_row(out, y)
    IN  num_chunks(row.end - row.start, block_size(format))

compress_block(out, src, y, x) ==
    LET bs      == block_size(format)
        row     == compress_row(out, y)
        block   == chunks_mut(row.end - row.start, bs, x)
        bstart  == row.start + block.start
        blen    == block.end - block.start
        sx(index) == 4 * x + (index % 4)
        sy(index) == 4 * y + (index \div 4)
        enabled == [index \in 0..15 |-> sx(index) < width /\ sy(index) < height]
        src_index(index) == 4 * (width * sy(index) + sx(index))
        read_panics ==
            \E index \in 0..15 : enabled[index] /\ src_index(index) + 4 > Len(rgba)
        tile    == [n \in 1..16 |->
                      IF enabled[n - 1]
                      THEN SubSeq(rgba, src_index(n - 1) + 1, src_index(n - 1) + 4)
                      ELSE src[n]]
        mask    == mask_bits(enabled, 0)
        enc     == compress_block_masked(format, tile, mask, params, blen)
        span    == bstart .. (bstart + Len(enc.written) - 1)
    IN  IF read_panics
        THEN [output |-> out, source_rgba |-> src, written |-> {},
              called |-> {}, panicked |-> TRUE]
        ELSE [output |-> [k \in 1..Len(out) |->
                            IF (k - 1) \in span THEN enc.written[k - bstart]
                            ELSE out[k]],
              source_rgba |-> tile,
              written |-> span,
              called |-> {[y |-> y, x |-> x, rgba |-> tile, mask |-> mask,
                           start |-> bstart, len |-> blen]},
              panicked |-> enc.panicked]

(***************************************************************************)
(* Decoder::decompress, one block: the body of `for x in 0..blocks_wide`   *)
(* for block x of the chunk y of output_rows.  Bytes are written in the    *)
(* order (py, px, i); the first index outside output_row panics and keeps  *)
(* what was written before it.                                             *)
(***************************************************************************)
decompress_chunk_size == width * 4 * 4

decompress_row(out, y) == chunks_mut(Len(out), decompress_chunk_size, y)

decompress_one_block(out, y, x) ==
    LET bs      == block_size(format)
        row     == decompress_row(out, y)
        rowlen  == row.end - row.start
        bidx    == (x + y * num_blocks(width)) * bs
        slice_panics == bidx + bs > Len(data)
        pixels  == decompress_block(format, SubSeq(data, bidx + 1, bidx + bs))
        \* step m of the three nested loops: pixel m \div 4, channel m % 4
        px(m)   == (m \div 4) % 4
        py(m)   == (m \div 4) \div 4
        sx(m)   == 4 * x + px(m)
        sy(m)   == py(m)
        kept(m) == sx(m) < width /\ sy(m) < height
        target(m) == 4 * (sx(m) + sy(m) * width) + (m % 4)
        bad     == {m \in 0..63 : kept(m) /\ target(m) >= rowlen}
        stop    == IF bad = {} THEN 64
                   ELSE CHOOSE m \in bad : \A m2 \in bad : m <= m2
        \* the loop step that targets byte j of output_row, if any
        step(j) == (((j \div 4) \div width) * 4 + (((j \div 4) % width) % 4)) * 4
                       + (j % 4)
        hit(j)  == /\ j >= 0
                   /\ j < rowlen
                   /\ ((j \div 4) % width) \div 4 = x
                   /\ (j \div 4) \div width < 4
                   /\ kept(step(j))
                   /\ step(j) < stop
    IN  IF slice_panics
        THEN [output |-> out, written |-> {}, panicked |-> TRUE]
        ELSE [output |-> [k \in 1..Len(out) |->
                            IF hit(k - 1 - row.start)
                            THEN LET m == step(k - 1 - row.start)
                                 IN  pixels[(m \div 4) + 1][(m % 4) + 1]
                            ELSE out[k]],
              written |-> {k \in 0..(Len(out) - 1) : hit(k - row.start)},
              panicked |-> bad # {}]

(***************************************************************************)
(* The image calls: compress and decompress split the output into rows of  *)
(* blocks and run the row closure on each: in order without feature        *)
(* "rayon", on concurrent workers with it.  A row is a sequence of block   *)
(* steps.  A panic in a sequential for_each ends the call at once; with    *)
(* rayon the call ends when every row has ended.                           *)
(***************************************************************************)
InitImage ==
    /\ op \in {"compress", "decompress"}
    /\ format \in Formats
    /\ width \in 0..MaxWidth
    /\ height \in 0..MaxHeight
    /\ seed \in 1..MaxImageSeed
    /\ params = DefaultParams
    /\ rayon \in BOOLEAN
    /\ status = "ready"
    /\ IF op = "compress"
       THEN /\ rgba = InputImage(seed, width, height)
            /\ data = <<>>
            /\ \E len \in OutputLens(format, width, height) :
                    output = InitialCells(seed, len)
       ELSE /\ rgba = <<>>
            /\ data = CompressedData(seed, compressed_size(format, width, height))
            /\ output = InitialBytes(seed, width * height * 4)
    /\ writers = [k \in 1..Len(output) |-> {}]
    /\ rows = <<>>
    /\ calls = {}
    /\ times = <<>>
    /\ result = <<>>

\* assert!(output.len() >= Self::compressed_size(width, height))
compress_assert_skipped(len) == TRUE

compress_assert(len) == len >= compressed_size(format, width, height)

CompressEnter ==
    /\ op = "compress"
    /\ status = "ready"
    /\ IF ~compress_assert(Len(output))
       THEN /\ status' = "panicked"           \* assert!
            /\ rows' = rows
       ELSE IF compress_chunk_size = 0
       THEN /\ status' = "panicked"           \* chunks_mut(0)
            /\ rows' = rows
       ELSE /\ status' = "running"
            /\ rows' = NewRows(num_chunks(Len(output), compress_chunk_size))
    /\ UNCHANGED <<op, format, width, height, seed, params, rayon, rgba, data,
                   output, writers, calls, times, result>>

DecompressEnter ==
    /\ op = "decompress"
    /\ status = "ready"
    /\ IF decompress_chunk_size = 0
       THEN /\ status' = "panicked"           \* chunks_mut(0)
            /\ rows' = rows
       ELSE /\ status' = "running"
            /\ rows' = NewRows(num_chunks(Len(output), decompress_chunk_size))
    /\ UNCHANGED <<op, format, width, height, seed, params, rayon, rgba, data,
                   output, writers, calls, times, result>>

Scheduled(r) ==
    /\ status = "running"
    /\ r \in DOMAIN rows
    /\ rows[r].pc = "run"
    /\ rayon \/ \A q \in 1..(r - 1) : rows[q].pc = "done"

RowAfter(r, panicked, nblocks, src) ==
    [rows EXCEPT ![r] =
        [pc |-> IF panicked THEN "panicked"
                ELSE IF rows[r].x + 1 >= nblocks THEN "done" ELSE "run",
         x  |-> IF panicked THEN rows[r].x ELSE rows[r].x + 1,
         source_rgba |-> src]]

\* one more invocation of the block encoder for every tile in `called`
count_calls(count, called) ==
    LET tiles == {<<c.y, c.x>> : c \in called}
    IN  [t \in (DOMAIN count) \cup tiles |->
            (IF t \in DOMAIN count THEN count[t] ELSE 0)
                + (IF t \in tiles THEN 1 ELSE 0)]

CompressBlock(r) ==
    /\ op = "compress"
    /\ Scheduled(r)
    /\ \E st \in {compress_block(output, rows[r].source_rgba, r - 1, rows[r].x)} :
           /\ output' = st.output
           /\ writers' = [k \in 1..Len(output) |->
                            IF (k - 1) \in st.written THEN writers[k] \cup {r - 1}
                            ELSE writers[k]]
           /\ calls' = calls \cup st.called
           /\ times' = count_calls(times, st.called)
           /\ rows' = RowAfter(r, st.panicked,
                               compress_row_blocks(output, r - 1), st.source_rgba)
           /\ status' = IF st.panicked /\ ~rayon THEN "panicked" ELSE status
    /\ UNCHANGED <<op, format, width, height, seed, params, rayon, rgba, data, result>>

DecompressBlock(r) ==
    /\ op = "decompress"
    /\ Scheduled(r)
    /\ \E st \in {decompress_one_block(output, r - 1, rows[r].x)} :
           /\ output' = st.output
           /\ writers' = [k \in 1..Len(output) |->
                            IF (k - 1) \in st.written THEN writers[k] \cup {r - 1}
                            ELSE writers[k]]
           /\ rows' = RowAfter(r, st.panicked, num_blocks(width),
                               rows[r].source_rgba)
           /\ status' = IF st.panicked /\ ~rayon THEN "panicked" ELSE status
    /\ UNCHANGED <<op, format, width, height, seed, params, rayon, rgba, data,
                   calls, times, result>>

Return ==
    /\ status = "running"
    /\ \A r \in DOMAIN rows : Terminated(rows[r])
    /\ status' = IF \E r \in DOMAIN rows : rows[r].pc = "panicked"
                 THEN "panicked" ELSE "returned"
    /\ UNCHANGED <<op, format, width, height, seed, params, rayon, rgba, data,
                   output, writers, rows, calls, times, result>>

NextImage ==
    \/ CompressEnter
    \/ DecompressEnter
    \/ \E r \in DOMAIN rows : CompressBlock(r)
    \/ \E r \in DOMAIN rows : DecompressBlock(r)
    \/ Return

SpecImage == InitImage /\ [][NextImage]_vars

(***************************************************************************)
(* The rows of blocks processed one after the other, in order, as a fold:  *)
(* what the sequential for_each computes from the buffers the call was     *)
(* given.                                                                  *)
(***************************************************************************)
RECURSIVE SeqCompress(_, _, _, _)
SeqCompressNext(st, out, y, x) ==
    IF st.panicked THEN st.output
    ELSE IF x + 1 < compress_row_blocks(out, y)
    THEN SeqCompress(st.output, st.source_rgba, y, x + 1)
    ELSE SeqCompress(st.output, ZeroPixels, y + 1, 0)

SeqCompress(out, src, y, x) ==
    IF y >= num_chunks(Len(out), compress_chunk_size) THEN out
    ELSE CHOOSE r \in {SeqCompressNext(st, out, y, x) :
                            st \in {compress_block(out, src, y, x)}} : TRUE

RECURSIVE SeqDecompress(_, _, _)
SeqDecompressNext(st, y, x) ==
    IF st.panicked THEN st.output
    ELSE IF x + 1 < num_blocks(width)
    THEN SeqDecompress(st.output, y, x + 1)
    ELSE SeqDecompress(st.output, y + 1, 0)

SeqDecompress(out, y, x) ==
    IF y >= num_chunks(Len(out), decompress_chunk_size) THEN out
    ELSE CHOOSE r \in {SeqDecompressNext(st, y, x) :
                            st \in {decompress_one_block(out, y, x)}} : TRUE

SequentialOutput ==
    IF op = "compress"
    THEN IF \/ Len(output) < compressed_size(format, width, height)
            \/ compress_chunk_size = 0
         THEN InitialCells(seed, Len(output))
         ELSE SeqCompress(InitialCells(seed, Len(output)), ZeroPixels, 0, 0)
    ELSE IF decompress_chunk_size = 0
         THEN InitialBytes(seed, Len(output))
         ELSE SeqDecompress(InitialBytes(seed, Len(output)), 0, 0)

(***************************************************************************)
(* C1 (size law): for every width, height >= 0 and every format,           *)
(* compressed_size(w, h) = ceil(w/4) * ceil(h/4) * block_size, with        *)
(* block_size 8 for BC1 and BC4 and 16 for BC2, BC3 and BC5; in particular *)
(* BC1(16,32) = 256, BC1(15,32) = 256 and BC2(15,32) = 512.                *)
(***************************************************************************)
CeilQuarter(n) == CHOOSE q \in 0..n : 4 * q >= n /\ 4 * q < n + 4

SizeLaw ==
    (op = "compressed_size" /\ status = "returned") =>
        /\ result = CeilQuarter(width) * CeilQuarter(height)
                        * (IF format \in {"BC1", "BC4"} THEN 8 ELSE 16)
        /\ (format = "BC1" /\ width = 16 /\ height = 32) => result = 256
        /\ (format = "BC1" /\ width = 15 /\ height = 32) => result = 256
        /\ (format = "BC2" /\ width = 15 /\ height = 32) => result = 512

SizeLawWitness ==
    /\ op = "compressed_size"
    /\ status = "returned"
    /\ format = "BC2"
    /\ width = 15
    /\ height = 32
    /\ result = 512

(***************************************************************************)
(* C4 (BC4 channel replication): every pixel decoded from an 8-byte BC4    *)
(* block has R = G = B and A = 255.                                        *)
(***************************************************************************)
BC4ChannelReplication ==
    (op = "decompress_block" /\ format = "BC4" /\ status = "returned") =>
        \A n \in 1..16 :
            /\ result[n][1] = result[n][2]
            /\ result[n][2] = result[n][3]
            /\ result[n][4] = 255

(***************************************************************************)
(* C5 (BC5 channels): every pixel decoded from a 16-byte BC5 block has R   *)
(* decoded from bytes 0..8, G decoded from bytes 8..16, B = 0 and A = 255. *)
(***************************************************************************)
GradientValue(bytes, i) == At(alpha_codes(At(bytes, 0), At(bytes, 1)), alpha_index(bytes, i))

BC5ChannelZeroing ==
    (op = "decompress_block" /\ format = "BC5" /\ status = "returned") =>
        \A n \in 1..16 :
            /\ result[n][1] = GradientValue(SubSeq(data, 1, 8), n - 1)
            /\ result[n][2] = GradientValue(SubSeq(data, 9, 16), n - 1)
            /\ result[n][3] = 0
            /\ result[n][4] = 255

(***************************************************************************)
(* C7 (BC1 decoding): endpoint a is bytes 0-1 and b bytes 2-3 (little-     *)
(* endian 565), each channel expanded by bit replication; the palette is   *)
(* {p0, p1, (2p0+p1)/3, (p0+2p1)/3} when a > b and {p0, p1, (p0+p1)/2,     *)
(* transparent black} otherwise; pixel i takes the entry selected by bits  *)
(* (2i, 2i+1) of the little-endian word in bytes 4-7, with alpha 255       *)
(* except for the transparent entry.  The two vectors of the unit tests    *)
(* decode to the grey checkerboard and to the three-row colour tile.       *)
(***************************************************************************)
Expand5(v) == (v * 8) + (v \div 4)

Expand6(v) == (v * 4) + (v \div 16)

Rgb565(e) == << Expand5(e \div 2048), Expand6((e \div 32) % 64), Expand5(e % 32) >>

ClaimedBC1Pixel(bytes, i) ==
    LET a    == bytes[1] + 256 * bytes[2]
        b    == bytes[3] + 256 * bytes[4]
        p0   == Rgb565(a)
        p1   == Rgb565(b)
        word == bytes[5] + 256 * bytes[6] + 65536 * bytes[7]
                    + 16777216 * LowBits(bytes[8], 6)
        sel  == IF i = 15 THEN bytes[8] \div 64 ELSE (word \div (4 ^ i)) % 4
    IN  CASE sel = 0 -> p0 \o <<255>>
          [] sel = 1 -> p1 \o <<255>>
          [] sel = 2 /\ a > b ->
                [c \in 1..3 |-> (2 * p0[c] + p1[c]) \div 3] \o <<255>>
          [] sel = 2 /\ a <= b ->
                [c \in 1..3 |-> (p0[c] + p1[c]) \div 2] \o <<255>>
          [] sel = 3 /\ a > b ->
                [c \in 1..3 |-> (p0[c] + 2 * p1[c]) \div 3] \o <<255>>
          [] sel = 3 /\ a <= b -> <<0, 0, 0, 0>>

GrayPixels ==
    [n \in 1..16 |->
        LET v == << 255, 0, 255, 0,
                    0, 127, 127, 255,
                    255, 127, 127, 0,
                    0, 255, 0, 255 >>[n]
        IN  <<v, v, v, 255>>]

ColourPixels ==
    [n \in 1..16 |->
        IF n <= 4 THEN <<255, 150, 74, 255>>
        ELSE IF n <= 8 THEN <<255, 120, 52, 255>>
        ELSE <<255, 105, 41, 255>>]

BC1Decoding ==
    (op = "decompress_block" /\ format = "BC1" /\ status = "returned") =>
        /\ \A n \in 1..16 : result[n] = ClaimedBC1Pixel(data, n - 1)
        /\ data = GrayBlock => result = GrayPixels
        /\ data = ColourBlock => result = ColourPixels

BC1DecodingWitness ==
    /\ op = "decompress_block"
    /\ format = "BC1"
    /\ status = "returned"
    /\ data = ColourBlock
    /\ result[5] = <<255, 120, 52, 255>>
    /\ result[16] = <<255, 105, 41, 255>>

(***************************************************************************)
(* C2 (decompress honours width and height): for W, H >= 1, data of        *)
(* exactly compressed_size(W, H) bytes and an output of exactly W*H*4      *)
(* bytes, decompress completes without failure, and every in-image pixel   *)
(* (sx, sy) is the decoded pixel (sx mod 4, sy mod 4) of block             *)
(* (sx div 4, sy div 4), at output offset 4*(sx + sy*W); decoded pixels    *)
(* with sx >= W or sy >= H are dropped.                                    *)
(***************************************************************************)
BlockAt(bx, by) ==
    LET bidx == (bx + by * CeilQuarter(width)) * block_size(format)
    IN  SubSeq(data, bidx + 1, bidx + block_size(format))

DecompressContract ==
    (op = "decompress" /\ width >= 1 /\ height >= 1) =>
        /\ status # "panicked"
        /\ status = "returned" =>
             \A bx \in 0..(CeilQuarter(width) - 1), by \in 0..(CeilQuarter(height) - 1) :
                \A pixels \in {decompress_block(format, BlockAt(bx, by))} :
                    \A px \in 0..3, py \in 0..3 :
                        (4 * bx + px < width /\ 4 * by + py < height) =>
                            \A i \in 0..3 :
                                At(output, 4 * ((4 * bx + px) + (4 * by + py) * width) + i)
                                    = pixels[px + 4 * py + 1][i + 1]

(***************************************************************************)
(* C3 (compress writes exactly compressed_size bytes): for every output    *)
(* buffer at least compressed_size(W, H) long, the call completes, every   *)
(* output byte at index >= compressed_size(W, H) is left unchanged, and no *)
(* block encoder is invoked for a block row ty >= ceil(H/4).  Stated for   *)
(* W, H >= 1.                                                              *)
(***************************************************************************)
CompressWritesExactly ==
    (/\ op = "compress"
     /\ width >= 1
     /\ height >= 1
     /\ Len(output) >= compressed_size(format, width, height)) =>
        /\ status # "panicked"
        /\ \A k \in (compressed_size(format, width, height) + 1)..Len(output) :
                /\ output[k] = InitialCells(seed, Len(output))[k]
                /\ writers[k] = {}
        /\ \A c \in calls : c.y < CeilQuarter(height)

(***************************************************************************)
(* C9 (rows of blocks are independent): in any interleaving of the row     *)
(* workers of compress and of decompress, no output byte is written by two *)
(* different workers and the input buffer is never written, so the output  *)
(* buffer the call leaves is the one the rows processed sequentially in    *)
(* order leave.                                                            *)
(***************************************************************************)
RowsIndependent ==
    (op \in {"compress", "decompress"}) =>
        /\ \A k \in 1..Len(output) : Cardinality(writers[k]) <= 1
        /\ op = "compress" => rgba = InputImage(seed, width, height)
        /\ op = "decompress" =>
                data = CompressedData(seed, compressed_size(format, width, height))
        /\ status \in {"returned", "panicked"} => output = SequentialOutput

RowsIndependentWitness ==
    /\ rayon
    /\ status = "returned"
    /\ Len(rows) >= 3
    /\ \A k \in 1..Len(output) : Cardinality(writers[k]) = 1
    /\ output = SequentialOutput

(***************************************************************************)
(* C10 (tiles are zero-filled): every tile compress hands to the block     *)
(* encoder has exactly 16 pixels, and every out-of-image pixel of it       *)
(* (4*tx+px >= W or 4*ty+py >= H) has all four channels equal to 0.        *)
(***************************************************************************)
TilesZeroFilled ==
    op = "compress" =>
        \A c \in calls :
            /\ Len(c.rgba) = 16
            /\ \A index \in 0..15 :
                    (4 * c.x + (index % 4) >= width
                        \/ 4 * c.y + (index \div 4) >= height)
                    => c.rgba[index + 1] = <<0, 0, 0, 0>>

(***************************************************************************)
(* C6 (BC2/BC3 colour block is four-colour-only): the BC2 and BC3 encoders *)
(* run the colour fitters with three-colour mode disabled, only BC1        *)
(* enables it, and the BC2 and BC3 decoders build the palette              *)
(* {p0, p1, (2p0+p1)/3, (p0+2p1)/3} from bytes 8..16 for every endpoint    *)
(* ordering, also when endpoint0 <= endpoint1.                             *)
(***************************************************************************)
FourColourEntry(bytes, i) ==
    LET p0  == Rgb565(bytes[1] + 256 * bytes[2])
        p1  == Rgb565(bytes[3] + 256 * bytes[4])
        sel == (bytes[5 + (i \div 4)] \div (4 ^ (i % 4))) % 4
    IN  CASE sel = 0 -> p0
          [] sel = 1 -> p1
          [] sel = 2 -> [c \in 1..3 |-> (2 * p0[c] + p1[c]) \div 3]
          [] sel = 3 -> [c \in 1..3 |-> (p0[c] + 2 * p1[c]) \div 3]

FourColourOnly ==
    /\ (op = "decompress_block" /\ format \in {"BC2", "BC3"} /\ status = "returned") =>
            \A n \in 1..16 :
                SubSeq(result[n], 1, 3) = FourColourEntry(SubSeq(data, 9, 16), n - 1)
    /\ (op = "compress_block_masked" /\ status = "returned") =>
            /\ \A k \in 1..Len(output) :
                    output[k].codec = "colour" => output[k].is_bc1 = (format = "BC1")
            /\ format \in {"BC2", "BC3"} =>
                    \A k \in 9..16 : output[k].codec = "colour" /\ output[k].k = k - 9

(***************************************************************************)
(* C11 (a short output fails fast): compress called with an output shorter *)
(* than compressed_size(W, H) panics before any block encoder runs and     *)
(* before any byte of the output buffer is modified; it never returns      *)
(* normally with a truncated image.                                        *)
(***************************************************************************)
ShortOutputFailsFast ==
    (op = "compress" /\ Len(output) < compressed_size(format, width, height)) =>
        /\ status \in {"ready", "panicked"}
        /\ output = InitialCells(seed, Len(output))
        /\ \A k \in 1..Len(output) : writers[k] = {}
        /\ rows = <<>>
        /\ calls = {}
        /\ DOMAIN times = {}

ShortOutputFailsFastWitness ==
    /\ op = "compress"
    /\ Len(output) = compressed_size(format, width, height) - 1
    /\ Len(output) >= block_size(format)
    /\ status = "panicked"
    /\ output = InitialCells(seed, Len(output))
    /\ calls = {}

(***************************************************************************)
(* C12 (one encoder call per tile): for W, H >= 1 and an output of exactly *)
(* compressed_size(W, H) bytes, compress invokes the block encoder exactly *)
(* once for each tile (tx, ty), 0 <= tx < ceil(W/4), 0 <= ty < ceil(H/4),  *)
(* and for no other; mask bit 4*py+px is set iff 4*tx+px < W and           *)
(* 4*ty+py < H, and no bit >= 16 is set; each in-image tile pixel is the   *)
(* source pixel (4*tx+px, 4*ty+py); the output slice is the bytes          *)
(* [(ty*ceil(W/4) + tx)*block_size, (ty*ceil(W/4) + tx + 1)*block_size).   *)
(***************************************************************************)
Tiles == (0..(CeilQuarter(height) - 1)) \X (0..(CeilQuarter(width) - 1))

InImage(tx, ty, i) == 4 * tx + (i % 4) < width /\ 4 * ty + (i \div 4) < height

SourcePixel(sx, sy) == SubSeq(rgba, 4 * (sy * width + sx) + 1, 4 * (sy * width + sx) + 4)

ClaimedCall(c) ==
    /\ <<c.y, c.x>> \in Tiles
    /\ c.mask < 2 ^ 16
    /\ \A i \in 0..15 : ((c.mask \div (2 ^ i)) % 2 = 1) <=> InImage(c.x, c.y, i)
    /\ \A i \in 0..15 :
            InImage(c.x, c.y, i) =>
                c.rgba[i + 1] = SourcePixel(4 * c.x + (i % 4), 4 * c.y + (i \div 4))
    /\ c.start = (c.y * CeilQuarter(width) + c.x) * block_size(format)
    /\ c.len = block_size(format)

OneCallPerTile ==
    (/\ op = "compress"
     /\ width >= 1
     /\ height >= 1
     /\ Len(output) = compressed_size(format, width, height)) =>
        /\ status # "panicked"
        /\ \A c \in calls : ClaimedCall(c)
        /\ DOMAIN times \subseteq Tiles
        /\ \A t \in DOMAIN times : times[t] = 1
        /\ status = "returned" =>
                /\ DOMAIN times = Tiles
                /\ \A t \in Tiles :
                        Cardinality({c \in calls : <<c.y, c.x>> = t}) = 1

OneCallPerTileWitness ==
    /\ op = "compress"
    /\ status = "returned"
    /\ width % 4 = 1
    /\ height % 4 = 1
    /\ Len(output) = compressed_size(format, width, height)
    /\ Cardinality(Tiles) >= 6
    /\ DOMAIN times = Tiles
    /\ \A t \in Tiles : times[t] = 1
    /\ \E c \in calls : c.y = 2 /\ c.x = 1 /\ c.mask = 1

(***************************************************************************)
(* C13 (fitter dispatch): for every colour block of BC1/BC2/BC3 exactly    *)
(* one fitter runs, chosen from the colour-set size and params.algorithm:  *)
(* size 1 -> SingleColourFit for every algorithm; size 0 -> RangeFit for   *)
(* every algorithm; size >= 2 -> RangeFit if algorithm = RangeFit,         *)
(* ClusterFit without iteration if algorithm = ClusterFit, ClusterFit with *)
(* iterative refinement if algorithm = IterativeClusterFit.  The fitter    *)
(* writes only the 8 colour bytes: bytes 0..8 for BC1, bytes 8..16 for BC2 *)
(* and BC3.                                                                *)
(***************************************************************************)
SetSize ==
    Cardinality({SubSeq(BlockTile[i + 1], 1, 3) :
                    i \in {j \in 0..15 :
                             /\ (BlockMask \div (2 ^ j)) % 2 = 1
                             /\ ~(format = "BC1" /\ BlockTile[j + 1][4] < 128)}})

ClaimedFitter(size, algorithm) ==
    CASE size = 1 -> [fit |-> "SingleColourFit", iterate |-> FALSE]
      [] size = 0 -> [fit |-> "RangeFit", iterate |-> FALSE]
      [] size >= 2 /\ algorithm = "RangeFit" -> [fit |-> "RangeFit", iterate |-> FALSE]
      [] size >= 2 /\ algorithm = "ClusterFit" -> [fit |-> "ClusterFit", iterate |-> FALSE]
      [] size >= 2 /\ algorithm = "IterativeClusterFit" ->
            [fit |-> "ClusterFit", iterate |-> TRUE]

ColourBytes == IF format = "BC1" THEN 1..8 ELSE 9..16

FitterDispatch ==
    (/\ op = "compress_block_masked"
     /\ format \in {"BC1", "BC2", "BC3"}
     /\ status = "returned") =>
        /\ result = << ClaimedFitter(SetSize, params.algorithm) >>
        /\ \A k \in ColourBytes :
                /\ output[k].codec = "colour"
                /\ output[k].fit = result[1]
        /\ \A k \in (1..Len(output)) \ ColourBytes :
                /\ output[k].codec # "colour"
                /\ output[k].fit = NoFit

FitterDispatchWitness ==
    /\ op = "compress_block_masked"
    /\ format = "BC1"
    /\ status = "returned"
    /\ Len(output) = 16
    /\ SetSize >= 2
    /\ BlockMask = 65535
    /\ params.algorithm = "IterativeClusterFit"
    /\ result = << [fit |-> "ClusterFit", iterate |-> TRUE] >>
    /\ output[8].fit = result[1]
    /\ output[9] = InitialCells(seed, 16)[9]

=============================================================================
